---- MODULE Spec2Model ----
(***************************************************************************)
(* Model of the conference room client (views/ConferenceRoom/Conference.tsx)*)
(* of agoraX_front: the peer connection registry, the offer/answer/         *)
(* candidate handlers, the local media state, the toggles and the teardown. *)
(*                                                                          *)
(* Every client in `present` runs the Conference component.  Identifiers    *)
(* outside `present` are remote participants played by the environment.     *)
(*                                                                          *)
(* An `await` on an RTCPeerConnection method is a suspension point: the     *)
(* method is appended to the connection's operations chain (W3C WebRTC      *)
(* 4.4.1.3), it takes effect when it settles, and the continuation of the   *)
(* async function runs in the same turn up to its next await.               *)
(***************************************************************************)
EXTENDS Naturals, Sequences, FiniteSets, TLC

\* ------------------------------------------------------------------ bounds
\* events the relay/remote side may inject per run
MaxEvents == 2
\* longest operations chain of one connection
MaxChain == 2
\* longest socket inbox
MaxInbox == 1

\* ------------------------------------------------------------- identifiers
\* transport-assigned connection identifiers, ordered as strings
Ids == {"a", "b", "c"}
None == <<>>

IdLess(x, y) ==
    \/ x = "a" /\ y \in {"b", "c"}
    \/ x = "b" /\ y = "c"

TrackIds == {"A", "V1", "V2"}
KindOf(t) == IF t = "A" THEN "audio" ELSE "video"

VARIABLES
    present,        \* clients that run the component in this scenario
    phase,          \* [c] "mounted" | "left" (confirmLeaveCall ran) | "unmounted"
    exitSteps,      \* [c] what the exit code of c did so far, in the order it did it
    hasStream,      \* [c] localStream state is non-null
    streamTracks,   \* [c] tracks of the MediaStream object, in insertion order
    tracks,         \* [c][t] the MediaStreamTrack objects: readyState and enabled
    isMicOn,        \* [c]
    isCamOn,        \* [c]
    initMedia,      \* [c] position of the initMedia async function
    camRequests,    \* [c] toggleCamera calls suspended at getUserMedia({video})
    registered,     \* [c] keys of peerConnections.current
    pcs,            \* [c][p] the RTCPeerConnection registered for p
    livePcs,        \* [c][p] RTCPeerConnection objects constructed and not closed
    candSeen,       \* [c][p] candidates of p the ice-candidate handler received
    glare,          \* pairs {c, p} whose two ends held a local offer for each other at once
    subscribed,     \* [c] the audio signaling handlers are registered
    audioInbox,     \* [c] events on the way to c on the signaling socket
    emitted,        \* [c][event] number of emits by c, per event name
    errors,         \* [c] rejections that reached no handler
    nOffers,        \* [c] offers created by c so far
    voiceRoom,      \* relay: members of the voice room
    budget,         \* environment events still allowed
    recorder,       \* [c] the recorder refs and the MediaRecorder objects
    users,          \* [c] roster state, as the last roomUsers event gave it
    chatInbox,      \* [c] events on the way to c on the chat socket
    chatRoom,       \* chat relay: members of the room
    message,        \* [c] text of the chat input
    messages        \* [c] the chat log

mediaVars == <<hasStream, streamTracks, tracks, isMicOn, isCamOn, initMedia, camRequests>>
linkVars == <<registered, pcs, livePcs, candSeen, glare>>
netVars == <<audioInbox, emitted, voiceRoom>>
chatVars == <<users, chatInbox, chatRoom, message, messages>>
vars == <<present, phase, exitSteps, mediaVars, linkVars, subscribed, netVars, errors, nOffers,
          budget, recorder, chatVars>>

\* ------------------------------------------------------------ local media
NoTrack == [state |-> "absent", enabled |-> FALSE]
LiveTrack == [state |-> "live", enabled |-> TRUE]

SelectKind(s, k) == SelectSeq(s, LAMBDA t : KindOf(t) = k)
\* localStream.getAudioTracks() / getVideoTracks()
getAudioTracks(c) == SelectKind(streamTracks[c], "audio")
getVideoTracks(c) == SelectKind(streamTracks[c], "video")

\* ------------------------------------------------- RTCPeerConnection state
\* A connection as `new RTCPeerConnection()` returns it.
BlankPc ==
    [sig |-> "stable", pendL |-> None, pendR |-> None, curL |-> None,
     curR |-> None, senders |-> <<>>, ops |-> <<>>, ice |-> <<>>, via |-> "none"]

HasKindSender(link, k) == \E i \in 1..Len(link.senders) : KindOf(link.senders[i]) = k

\* pc.addTrack(track): a new sender carrying the track
addTrack(link, t) == [link EXCEPT !.senders = Append(@, t)]

\* "Add tracks only ONCE": the audio and the video track of localStream
AttachLocalTracks(link, c) ==
    LET a == getAudioTracks(c)
        v == getVideoTracks(c)
        l1 == IF hasStream[c] /\ a # <<>> /\ ~HasKindSender(link, "audio")
              THEN addTrack(link, a[1]) ELSE link
    IN IF hasStream[c] /\ v # <<>> /\ ~HasKindSender(l1, "video")
       THEN addTrack(l1, v[1]) ELSE l1

\* a getOrCreatePeerConnection without the early return: always a new connection
MutGetOrCreateAlwaysNew(c, p) ==
    [link |-> AttachLocalTracks(BlankPc, c), created |-> 1]

\* getOrCreatePeerConnection(userId): the link the registry holds for p after
\* the call, and whether a connection had to be constructed for it
getOrCreatePeerConnection(c, p) ==
    IF p \in registered[c]
    THEN [link |-> pcs[c][p], created |-> 0]
    ELSE [link |-> AttachLocalTracks(BlankPc, c), created |-> 1]

\* call a method of the connection: chain it behind the pending ones
Chain(link, op, d) == [link EXCEPT !.ops = Append(@, [op |-> op, d |-> d])]

RemoteDescriptionSet(link) == link.pendR # None \/ link.curR # None
LocalDescriptionSet(link) == link.pendL # None \/ link.curL # None

\* the async function an operation belongs to
FnOf(op) ==
    CASE op \in {"createOffer", "setLocalOffer"} -> "createOffer"
      [] op \in {"rollback", "setRemoteOffer", "createAnswer", "setLocalAnswer"}
            -> "handleReceiveOffer"
      [] op = "setRemoteAnswer" -> "handleReceiveAnswer"
      [] OTHER -> "ice-candidate"

Ok(link) == [ok |-> TRUE, link |-> link]
Rejected(link) == [ok |-> FALSE, link |-> link]

\* setRemoteDescription(offer) while a local offer is pending: browsers that
\* implement implicit rollback accept it, the others reject it
SetRemoteOfferOnLocalOffer(link, d) ==
    { Ok([link EXCEPT !.sig = "have-remote-offer", !.pendL = None, !.pendR = d]),
      Rejected(link) }

\* The outcomes of the operation at the head of the chain (JSEP state machine).
Outcomes(link, o) ==
    CASE o.op = "createOffer" ->
            IF link.sig \in {"stable", "have-local-offer"}
            THEN {Ok(link)} ELSE {Rejected(link)}
      [] o.op = "setLocalOffer" ->
            IF link.sig \in {"stable", "have-local-offer"}
            THEN {Ok([link EXCEPT !.sig = "have-local-offer", !.pendL = o.d])}
            ELSE {Rejected(link)}
      [] o.op = "rollback" ->
            IF link.sig \in {"have-local-offer", "have-remote-offer"}
            THEN {Ok([link EXCEPT !.sig = "stable", !.pendL = None, !.pendR = None])}
            ELSE {Rejected(link)}
      [] o.op = "setRemoteOffer" ->
            IF link.sig \in {"stable", "have-remote-offer"}
            THEN {Ok([link EXCEPT !.sig = "have-remote-offer", !.pendR = o.d])}
            ELSE SetRemoteOfferOnLocalOffer(link, o.d)
      [] o.op = "createAnswer" ->
            IF link.sig = "have-remote-offer" THEN {Ok(link)} ELSE {Rejected(link)}
      [] o.op = "setLocalAnswer" ->
            IF link.sig = "have-remote-offer"
            THEN {Ok([link EXCEPT !.sig = "stable", !.curL = o.d, !.curR = link.pendR,
                                  !.pendL = None, !.pendR = None, !.via = "peer"])}
            ELSE {Rejected(link)}
      [] o.op = "setRemoteAnswer" ->
            IF link.sig = "have-local-offer"
            THEN {Ok([link EXCEPT !.sig = "stable", !.curL = link.pendL, !.curR = o.d,
                                  !.pendL = None, !.pendR = None, !.via = "own"])}
            ELSE {Rejected(link)}
      [] OTHER ->  \* addIceCandidate
            IF RemoteDescriptionSet(link)
            THEN {Ok([link EXCEPT !.ice = Append(@, o.d)])}
            ELSE {Rejected(link)}

\* ------------------------------------------------------------ recorder
\* MediaRecorder objects the recorder effect may create
MaxRecorders == 2
RecIds == 1..MaxRecorders

\* a MediaRecorder: its state, whether onstop is assigned, the stop events not
\* yet dispatched, the untracked 400 ms restart timers not yet fired
NewRecorder == [state |-> "inactive", onstop |-> FALSE, stopEvents |-> 0, restarts |-> 0]

\* recorderRef, recorderShouldRestartRef, recorderStartTimeoutRef (the recorder
\* and the stage of its pending timer), recorderIntervalRef, the cleanup the
\* last effect run returned, and the MediaRecorder objects
NoRecorder ==
    [ref |-> 0, shouldRestart |-> TRUE, startTimeout |-> <<>>, interval |-> 0,
     cleanup |-> 0, mr |-> [i \in RecIds |-> NewRecorder]]

\* mediaRecorder.stop(): inactive at once, the stop event follows
StopRecorder(m) == [m EXCEPT !.state = "inactive", !.stopEvents = @ + 1]

\* an object nothing refers to any more, so that its slot can be used again
Dead(R, i) ==
    /\ R.mr[i].state = "inactive" /\ R.mr[i].stopEvents = 0 /\ R.mr[i].restarts = 0
    /\ R.ref # i /\ R.cleanup # i /\ R.interval # i
    /\ R.startTimeout = <<>> \/ R.startTimeout[1] # i
FreeRecorders(R) == {i \in RecIds : Dead(R, i)}
FreshRecorder(R) == CHOOSE i \in FreeRecorders(R) : \A j \in FreeRecorders(R) : i <= j

\* the cleanup returned by the recorder effect
RecorderCleanup(R) ==
    IF R.cleanup = 0 THEN R
    ELSE LET i == R.cleanup
         IN [R EXCEPT !.shouldRestart = FALSE,
                      !.mr[i] = IF @.state # "inactive" THEN StopRecorder(@) ELSE @,
                      !.interval = 0, !.startTimeout = <<>>, !.ref = 0, !.cleanup = 0]

\* the body of the recorder effect (deps localStream, roomId, username, isMicOn)
RecorderEffect(R, stream, mic, hasAudio) ==
    IF ~stream THEN R
    ELSE IF ~mic
    THEN [R EXCEPT !.mr = [i \in RecIds |->
                      IF i = R.ref /\ @[i].state # "inactive" THEN StopRecorder(@[i]) ELSE @[i]],
                   !.ref = 0]
    ELSE IF ~hasAudio THEN [R EXCEPT !.shouldRestart = TRUE]
    ELSE LET i == FreshRecorder(R)
         IN [R EXCEPT !.shouldRestart = TRUE, !.ref = i, !.mr[i] = NewRecorder,
                      !.startTimeout = <<i, 1>>, !.cleanup = i]

\* the effect can run: a MediaRecorder object is left when it creates one
RecorderSlot(R, stream, mic, hasAudio) ==
    (stream /\ mic /\ hasAudio) => FreeRecorders(R) # {}

\* the user agent stops a recorder whose tracks have all ended
TracksEnded(R) ==
    [R EXCEPT !.mr = [i \in RecIds |->
        IF @[i].state # "inactive" THEN StopRecorder(@[i]) ELSE @[i]]]

\* ---------------------------------------------------------------- network
Msg(type, from, d) == [type |-> type, from |-> from, d |-> d]

Count(c, ev) == [emitted EXCEPT ![c][ev] = @ + 1]

\* audioSocket.emit(ev, {to, ...}): the relay forwards it to `to`
Forward(inb, to, m) ==
    IF to \in present THEN [inb EXCEPT ![to] = Append(@, m)] ELSE inb

Events ==
    {"join-voice-room", "leave-voice-room", "voice-offer", "voice-answer",
     "ice-candidate", "joinRoom", "leaveRoom", "sendMessage"}

\* --------------------------------------------------------------- Init
InitCommon ==
    /\ phase = [c \in Ids |-> IF c \in present THEN "mounted" ELSE "unmounted"]
    /\ exitSteps = [c \in Ids |-> <<>>]
    /\ hasStream = [c \in Ids |-> FALSE]
    /\ streamTracks = [c \in Ids |-> <<>>]
    /\ tracks = [c \in Ids |-> [t \in TrackIds |-> NoTrack]]
    /\ isMicOn = [c \in Ids |-> TRUE]
    /\ isCamOn = [c \in Ids |-> TRUE]
    /\ initMedia = [c \in Ids |-> IF c \in present THEN "combined" ELSE "done"]
    /\ camRequests = [c \in Ids |-> 0]
    /\ registered = [c \in Ids |-> {}]
    /\ pcs = [c \in Ids |-> [p \in Ids |-> BlankPc]]
    /\ livePcs = [c \in Ids |-> [p \in Ids |-> 0]]
    /\ candSeen = [c \in Ids |-> [p \in Ids |-> <<>>]]
    /\ glare = {}
    /\ subscribed = [c \in Ids |-> FALSE]
    /\ audioInbox = [c \in Ids |-> <<>>]
    /\ emitted = [c \in Ids |-> [e \in Events |-> IF c \in present /\ e = "joinRoom" THEN 1 ELSE 0]]
    /\ errors = [c \in Ids |-> {}]
    /\ nOffers = [c \in Ids |-> 0]
    /\ voiceRoom = {}
    /\ recorder = [c \in Ids |-> NoRecorder]
    /\ users = [c \in Ids |-> {}]
    /\ message = [c \in Ids |-> <<>>]
    /\ messages = [c \in Ids |-> <<>>]

\* the chat room after the joinRoom of every client: the relay has sent the
\* roster of the room, which waits in the chat inbox of each client
ChatJoined(room) ==
    /\ chatRoom = room
    /\ chatInbox = [c \in Ids |-> IF c \in present
                                  THEN <<[type |-> "roomUsers", roster |-> room]>> ELSE <<>>]

Init ==
    /\ present = {"a"}
    /\ budget = MaxEvents
    /\ ChatJoined(Ids)
    /\ InitCommon

\* ------------------------------------------------------- effects, teardown
\* The signaling effect (deps audioSocket, roomId, localStream) runs once
\* localStream is set: it emits join-voice-room and registers the handlers.
RunSignalingEffect(c, room) == room \cup {c}

\* setLocalStream(stream) of a mounted component, and the effects it triggers
SetLocalStream(c, ts) ==
    IF phase[c] = "unmounted"
    THEN UNCHANGED <<hasStream, streamTracks, subscribed, voiceRoom, emitted, recorder>>
    ELSE /\ hasStream' = [hasStream EXCEPT ![c] = TRUE]
         /\ recorder' = [recorder EXCEPT ![c] =
                RecorderEffect(@, TRUE, isMicOn[c], SelectKind(ts, "audio") # <<>>)]
         /\ streamTracks' = [streamTracks EXCEPT ![c] = ts]
         /\ subscribed' = [subscribed EXCEPT ![c] = TRUE]
         /\ voiceRoom' = RunSignalingEffect(c, voiceRoom)
         /\ emitted' = Count(c, "join-voice-room")

\* initMedia: getUserMedia({audio, video}) resolves; what the relay does with
\* the join-voice-room this leads to is left to the caller
GumCombinedResolves(c) ==
    /\ initMedia[c] = "combined"
    /\ initMedia' = [initMedia EXCEPT ![c] = "done"]
    /\ tracks' = [tracks EXCEPT ![c]["A"] = LiveTrack, ![c]["V1"] = LiveTrack]
    /\ SetLocalStream(c, <<"A", "V1">>)
    /\ UNCHANGED <<present, phase, exitSteps, isMicOn, isCamOn, camRequests, linkVars,
                   errors, nOffers, budget,
                   chatVars>>

\* initMedia resolves; announcing the client is a step of the relay
GumCombinedOk(c) ==
    /\ GumCombinedResolves(c)
    /\ UNCHANGED audioInbox

\* the relay on join-voice-room: the members of the room are told user-joined
RelayJoin(c, inb) ==
    [q \in Ids |-> IF q \in voiceRoom \ {c} /\ q \in present
                   THEN Append(inb[q], Msg("user-joined", c, None)) ELSE inb[q]]

\* initMedia resolves and the relay announces the client to those in the room
GumCombinedJoin(c) ==
    /\ GumCombinedResolves(c)
    /\ audioInbox' = IF phase[c] = "unmounted" THEN audioInbox
                     ELSE RelayJoin(c, audioInbox)

\* initMedia: the combined request rejects, the fallback asks for video
GumCombinedFail(c) ==
    /\ initMedia[c] = "combined"
    /\ initMedia' = [initMedia EXCEPT ![c] = "video"]
    /\ UNCHANGED <<present, phase, exitSteps, hasStream, streamTracks, tracks, isMicOn, isCamOn,
                   camRequests, linkVars, subscribed, netVars, errors, nOffers, budget,
                   recorder, chatVars>>

\* initMedia fallback: getUserMedia({video}) settles, then audio is asked for
GumVideo(c, ok) ==
    /\ initMedia[c] = "video"
    /\ initMedia' = [initMedia EXCEPT ![c] = "audio"]
    /\ tracks' = IF ok THEN [tracks EXCEPT ![c]["V1"] = LiveTrack] ELSE tracks
    /\ UNCHANGED <<present, phase, exitSteps, hasStream, streamTracks, isMicOn, isCamOn,
                   camRequests, linkVars, subscribed, netVars, errors, nOffers, budget,
                   recorder, chatVars>>

\* an initMedia fallback that sets a stream only when both requests succeeded
MutGumAudioAllOrNothing(c, ok) ==
    /\ initMedia[c] = "audio"
    /\ initMedia' = [initMedia EXCEPT ![c] = "done"]
    /\ tracks' = IF ok THEN [tracks EXCEPT ![c]["A"] = LiveTrack] ELSE tracks
    /\ IF tracks[c]["V1"].state = "live" /\ ok
       THEN SetLocalStream(c, <<"V1", "A">>)
       ELSE UNCHANGED <<hasStream, streamTracks, subscribed, voiceRoom, emitted, recorder>>
    /\ UNCHANGED <<present, phase, exitSteps, isMicOn, isCamOn, camRequests, linkVars,
                   audioInbox, errors, nOffers, budget,
                   chatVars>>

\* initMedia fallback: getUserMedia({audio}) settles; whatever succeeded is
\* merged into a new MediaStream, nothing is set when both failed
GumAudio(c, ok) ==
    /\ initMedia[c] = "audio"
    /\ initMedia' = [initMedia EXCEPT ![c] = "done"]
    /\ tracks' = IF ok THEN [tracks EXCEPT ![c]["A"] = LiveTrack] ELSE tracks
    /\ LET video == tracks[c]["V1"].state = "live"
           ts == (IF video THEN <<"V1">> ELSE <<>>) \o (IF ok THEN <<"A">> ELSE <<>>)
       IN IF ~video /\ ~ok
          THEN UNCHANGED <<hasStream, streamTracks, subscribed, voiceRoom, emitted, recorder>>
          ELSE SetLocalStream(c, ts)
    /\ UNCHANGED <<present, phase, exitSteps, isMicOn, isCamOn, camRequests, linkVars,
                   audioInbox, errors, nOffers, budget,
                   chatVars>>

\* t.stop() for every track of localStream
StopTracks(c, trk) ==
    IF hasStream[c]
    THEN [trk EXCEPT ![c] = [t \in TrackIds |->
            IF \E i \in 1..Len(streamTracks[c]) : streamTracks[c][i] = t
            THEN [@[t] EXCEPT !.state = "ended"] ELSE @[t]]]
    ELSE trk

\* the relay on leave-voice-room: the others are told user-left
RelayLeave(c, inb) ==
    IF c \in voiceRoom
    THEN [q \in Ids |-> IF q \in voiceRoom \ {c} /\ q \in present
                        THEN Append(inb[q], Msg("user-left", c, None)) ELSE inb[q]]
    ELSE inb

\* the chat relay when p leaves the room: the roster goes to those who stay
RosterAfterLeave(p, inb) ==
    IF p \in chatRoom
    THEN [q \in Ids |-> IF q \in chatRoom \ {p} /\ q \in present
                        THEN Append(inb[q], [type |-> "roomUsers", roster |-> chatRoom \ {p}])
                        ELSE inb[q]]
    ELSE inb

\* what leaveVoiceRoom() and the cleanup of the signaling effect do, in their
\* order: the emit, pc.close() when a connection exists, t.stop() when a
\* track of localStream is still live
LeaveVoiceSteps(c) ==
    <<"leave-voice-room">>
      \o (IF registered[c] # {} THEN <<"close">> ELSE <<>>)
      \o (IF hasStream[c] /\ \E i \in 1..Len(streamTracks[c]) :
                                 tracks[c][streamTracks[c][i]].state = "live"
          THEN <<"stop">> ELSE <<>>)

\* what the cleanup of the recorder effect does when the effect registered one
RecorderCleanupSteps(c) ==
    IF recorder[c].cleanup # 0 THEN <<"cancel">> ELSE <<>>

\* leaveVoiceRoom(): announce, close every connection, stop the tracks
leaveVoiceRoom(c) ==
    /\ audioInbox' = RelayLeave(c, audioInbox)
    /\ voiceRoom' = voiceRoom \ {c}
    /\ registered' = [registered EXCEPT ![c] = {}]
    /\ pcs' = [pcs EXCEPT ![c] = [p \in Ids |-> BlankPc]]
    /\ livePcs' = [livePcs EXCEPT ![c] = [p \in Ids |->
                      IF p \in registered[c] THEN @[p] - 1 ELSE @[p]]]
    /\ tracks' = StopTracks(c, tracks)
    /\ candSeen' = [candSeen EXCEPT ![c] = [p \in Ids |-> <<>>]]
    /\ glare' = {g \in glare : c \notin g}

\* confirmLeaveCall: leaveRoom on the chat socket, leaveVoiceRoom(), the local
\* roster without this client, navigate("/home")
confirmLeaveCall(c) ==
    /\ c \in present
    /\ phase[c] = "mounted"
    /\ phase' = [phase EXCEPT ![c] = "left"]
    /\ exitSteps' = [exitSteps EXCEPT ![c] = @ \o <<"leaveRoom">> \o LeaveVoiceSteps(c)]
    /\ emitted' = [emitted EXCEPT ![c]["leaveRoom"] = @ + 1,
                                  ![c]["leave-voice-room"] = @ + 1]
    /\ chatInbox' = RosterAfterLeave(c, chatInbox)
    /\ chatRoom' = chatRoom \ {c}
    /\ users' = [users EXCEPT ![c] = @ \ {c}]
    /\ UNCHANGED <<message, messages>>
    /\ leaveVoiceRoom(c)
    /\ recorder' = IF hasStream[c] THEN [recorder EXCEPT ![c] = TracksEnded(@)]
                   ELSE recorder
    /\ UNCHANGED <<present, hasStream, streamTracks, isMicOn, isCamOn, initMedia,
                   camRequests, subscribed, errors, nOffers, budget>>

\* Unmount: the cleanups of the chat effect, of the recorder effect and, when
\* it ran, of the signaling effect (off, leave-voice-room, close, stop tracks)
Unmount(c) ==
    /\ c \in present
    /\ phase[c] \in {"mounted", "left"}
    /\ phase' = [phase EXCEPT ![c] = "unmounted"]
    /\ exitSteps' = [exitSteps EXCEPT ![c] =
            @ \o <<"leaveRoom">> \o RecorderCleanupSteps(c)
              \o (IF subscribed[c] THEN LeaveVoiceSteps(c) ELSE <<>>)]
    /\ chatInbox' = RosterAfterLeave(c, chatInbox)
    /\ chatRoom' = chatRoom \ {c}
    /\ IF subscribed[c]
       THEN /\ emitted' = [emitted EXCEPT ![c]["leaveRoom"] = @ + 1,
                                         ![c]["leave-voice-room"] = @ + 1]
            /\ subscribed' = [subscribed EXCEPT ![c] = FALSE]
            /\ leaveVoiceRoom(c)
            /\ recorder' = [recorder EXCEPT ![c] = TracksEnded(RecorderCleanup(@))]
       ELSE /\ emitted' = [emitted EXCEPT ![c]["leaveRoom"] = @ + 1]
            /\ recorder' = [recorder EXCEPT ![c] = RecorderCleanup(@)]
            /\ UNCHANGED <<subscribed, audioInbox, voiceRoom, linkVars, tracks>>
    /\ UNCHANGED <<present, hasStream, streamTracks, isMicOn, isCamOn, initMedia,
                   camRequests, errors, nOffers, budget, users, message, messages>>

\* chatSocket.on("roomUsers"): the roster is replaced by the one received
OnRoomUsers(c) ==
    /\ c \in present
    /\ chatInbox[c] # <<>>
    /\ Head(chatInbox[c]).type = "roomUsers"
    /\ chatInbox' = [chatInbox EXCEPT ![c] = Tail(@)]
    /\ users' = IF phase[c] = "unmounted" THEN users
                ELSE [users EXCEPT ![c] = Head(chatInbox[c]).roster]
    /\ UNCHANGED <<present, phase, exitSteps, mediaVars, linkVars, subscribed, netVars, errors,
                   nOffers, budget, recorder, chatRoom, message, messages>>

\* ------------------------------------------------------------------ chat
\* longest text typed into the chat input
MaxText == 2
\* chat messages one client sends
MaxSent == 2

Chars == {" ", "x"}
Texts == UNION {[1..n -> Chars] : n \in 0..MaxText}
IsSpace(ch) == ch = " "

RECURSIVE TrimStart(_)
TrimStart(t) == IF t # <<>> /\ IsSpace(Head(t)) THEN TrimStart(Tail(t)) ELSE t
RECURSIVE TrimEnd(_)
TrimEnd(t) ==
    IF t # <<>> /\ IsSpace(t[Len(t)]) THEN TrimEnd(SubSeq(t, 1, Len(t) - 1)) ELSE t
\* String.prototype.trim
trim(t) == TrimEnd(TrimStart(t))

\* the chat relay on sendMessage: "message" goes to the members of the room
RelayMessage(inb, m) ==
    [q \in Ids |-> IF q \in chatRoom /\ q \in present
                   THEN Append(inb[q], [type |-> "message", msg |-> m]) ELSE inb[q]]

\* onChange of the chat input
setMessage(c, t) ==
    /\ c \in present
    /\ phase[c] = "mounted"
    /\ t # message[c]
    /\ message' = [message EXCEPT ![c] = t]
    /\ UNCHANGED <<present, phase, exitSteps, mediaVars, linkVars, subscribed, netVars, errors,
                   nOffers, budget, recorder, users, chatInbox, chatRoom, messages>>

\* a handleSendMessage that looks at the length of the text as typed
MutSendUntrimmed(c) ==
    /\ c \in present
    /\ phase[c] = "mounted"
    /\ Len(message[c]) # 0
    /\ emitted[c]["sendMessage"] < MaxSent
    /\ emitted' = Count(c, "sendMessage")
    /\ chatInbox' = RelayMessage(chatInbox, [user |-> c, text |-> trim(message[c])])
    /\ message' = [message EXCEPT ![c] = <<>>]
    /\ UNCHANGED <<present, phase, exitSteps, mediaVars, linkVars, subscribed, audioInbox,
                   voiceRoom, errors, nOffers, budget, recorder, users, chatRoom,
                   messages>>

\* handleSendMessage
handleSendMessage(c) ==
    /\ c \in present
    /\ phase[c] = "mounted"
    /\ IF Len(trim(message[c])) = 0
       THEN UNCHANGED <<emitted, chatInbox, message>>
       ELSE /\ emitted[c]["sendMessage"] < MaxSent
            /\ emitted' = Count(c, "sendMessage")
            /\ chatInbox' = RelayMessage(chatInbox, [user |-> c, text |-> trim(message[c])])
            /\ message' = [message EXCEPT ![c] = <<>>]
    /\ UNCHANGED <<present, phase, exitSteps, mediaVars, linkVars, subscribed, audioInbox,
                   voiceRoom, errors, nOffers, budget, recorder, users, chatRoom,
                   messages>>

\* a message handler that drops a message the log already holds
MutOnMessageDedup(c) ==
    /\ c \in present
    /\ chatInbox[c] # <<>>
    /\ Head(chatInbox[c]).type = "message"
    /\ chatInbox' = [chatInbox EXCEPT ![c] = Tail(@)]
    /\ messages' =
          IF phase[c] = "unmounted"
                \/ \E i \in 1..Len(messages[c]) : messages[c][i] = Head(chatInbox[c]).msg
          THEN messages
          ELSE [messages EXCEPT ![c] = Append(@, Head(chatInbox[c]).msg)]
    /\ UNCHANGED <<present, phase, exitSteps, mediaVars, linkVars, subscribed, netVars,
                   errors, nOffers, budget, recorder, users, chatRoom, message>>

\* chatSocket.on("message"): the message is appended to the log
OnMessage(c) ==
    /\ c \in present
    /\ chatInbox[c] # <<>>
    /\ Head(chatInbox[c]).type = "message"
    /\ chatInbox' = [chatInbox EXCEPT ![c] = Tail(@)]
    /\ messages' = IF phase[c] = "unmounted" THEN messages
                   ELSE [messages EXCEPT ![c] = Append(@, Head(chatInbox[c]).msg)]
    /\ UNCHANGED <<present, phase, exitSteps, mediaVars, linkVars, subscribed, netVars, errors,
                   nOffers, budget, recorder, users, chatRoom, message>>

\* ----------------------------------------------------- signaling handlers
Head1(c) == Head(audioInbox[c])
Popped(c) == [audioInbox EXCEPT ![c] = Tail(@)]
Incoming(c, type) ==
    /\ c \in present
    /\ audioInbox[c] # <<>>
    /\ Head1(c).type = type
    /\ subscribed[c]

\* registry and connection of c for p after a handler stored `link` there
Store(c, p, r, link) ==
    /\ registered' = [registered EXCEPT ![c] = @ \cup {p}]
    /\ pcs' = [pcs EXCEPT ![c][p] = link]
    /\ livePcs' = [livePcs EXCEPT ![c][p] = @ + r.created]
    /\ UNCHANGED <<candSeen, glare>>

\* createOffer(userId), up to its first await
createOffer(c, p) ==
    LET r == getOrCreatePeerConnection(c, p)
    IN /\ Len(r.link.ops) < MaxChain
       /\ Store(c, p, r, Chain(r.link, "createOffer", None))

\* audioSocket.on("user-joined")
OnUserJoined(c) ==
    /\ Incoming(c, "user-joined")
    /\ createOffer(c, Head1(c).from)
    /\ audioInbox' = Popped(c)
    /\ UNCHANGED <<present, phase, exitSteps, mediaVars, subscribed, emitted, voiceRoom,
                   errors, nOffers, budget,
                   recorder, chatVars>>

\* handleReceiveOffer(from, offer), up to its first await
handleReceiveOffer(c, p, offer) ==
    LET r == getOrCreatePeerConnection(c, p)
    IN /\ Len(r.link.ops) < MaxChain
       /\ Store(c, p, r, IF r.link.sig # "stable"
                         THEN Chain(r.link, "rollback", offer)
                         ELSE Chain(r.link, "setRemoteOffer", offer))

\* audioSocket.on("voice-offer")
OnVoiceOffer(c) ==
    /\ Incoming(c, "voice-offer")
    /\ handleReceiveOffer(c, Head1(c).from, Head1(c).d)
    /\ audioInbox' = Popped(c)
    /\ UNCHANGED <<present, phase, exitSteps, mediaVars, subscribed, emitted, voiceRoom,
                   errors, nOffers, budget,
                   recorder, chatVars>>

\* a handleReceiveAnswer without the signalingState test
MutReceiveAnswerAnyState(c, p, answer) ==
    IF p \in registered[c]
    THEN /\ Len(pcs[c][p].ops) < MaxChain
         /\ pcs' = [pcs EXCEPT ![c][p] = Chain(@, "setRemoteAnswer", answer)]
         /\ UNCHANGED <<registered, livePcs, candSeen, glare>>
    ELSE UNCHANGED linkVars

\* a handleReceiveAnswer that discards every answer
MutReceiveAnswerDiscard(c, p, answer) == UNCHANGED linkVars

\* handleReceiveAnswer(from, answer), up to its first await
handleReceiveAnswer(c, p, answer) ==
    IF p \in registered[c] /\ pcs[c][p].sig = "have-local-offer"
    THEN /\ Len(pcs[c][p].ops) < MaxChain
         /\ pcs' = [pcs EXCEPT ![c][p] = Chain(@, "setRemoteAnswer", answer)]
         /\ UNCHANGED <<registered, livePcs, candSeen, glare>>
    ELSE UNCHANGED linkVars

\* audioSocket.on("voice-answer")
OnVoiceAnswer(c) ==
    /\ Incoming(c, "voice-answer")
    /\ handleReceiveAnswer(c, Head1(c).from, Head1(c).d)
    /\ audioInbox' = Popped(c)
    /\ UNCHANGED <<present, phase, exitSteps, mediaVars, subscribed, emitted, voiceRoom,
                   errors, nOffers, budget,
                   recorder, chatVars>>

\* the ice-candidate handler body
receiveCandidate(c, p, candidate) ==
    /\ candSeen' = [candSeen EXCEPT ![c][p] = Append(@, candidate)]
    /\ UNCHANGED glare
    /\ IF p \in registered[c]
       THEN /\ Len(pcs[c][p].ops) < MaxChain
            /\ pcs' = [pcs EXCEPT ![c][p] = Chain(@, "addIceCandidate", candidate)]
            /\ UNCHANGED <<registered, livePcs>>
       ELSE UNCHANGED <<registered, pcs, livePcs>>

\* audioSocket.on("ice-candidate")
OnIceCandidate(c) ==
    /\ Incoming(c, "ice-candidate")
    /\ receiveCandidate(c, Head1(c).from, Head1(c).d)
    /\ audioInbox' = Popped(c)
    /\ UNCHANGED <<present, phase, exitSteps, mediaVars, subscribed, emitted, voiceRoom,
                   errors, nOffers, budget,
                   recorder, chatVars>>

\* Pending promises of a connection that is closed never settle (W3C WebRTC
\* 4.4.1.3 step 7.1): the rejections close() causes in the functions suspended on it
RejectedByClose(c, p, link) == {}

\* a user-left handler that closes the connection and forgets to delete it
MutRemovePeerNoDelete(c, p) ==
    /\ candSeen' = [candSeen EXCEPT ![c][p] = <<>>]
    /\ glare' = glare \ {{c, p}}
    /\ livePcs' = [livePcs EXCEPT ![c][p] = IF p \in registered[c] THEN @ - 1 ELSE @]
    /\ UNCHANGED <<registered, pcs, errors>>

\* a user-left handler that closes and deletes every connection
MutRemovePeerAll(c, p) ==
    /\ candSeen' = [candSeen EXCEPT ![c][p] = <<>>]
    /\ glare' = glare \ {{c, p}}
    /\ registered' = [registered EXCEPT ![c] = {}]
    /\ pcs' = [pcs EXCEPT ![c] = [q \in Ids |-> BlankPc]]
    /\ livePcs' = [livePcs EXCEPT ![c] = [q \in Ids |-> 0]]
    /\ UNCHANGED errors

\* the user-left handler body: close and delete the connection of p
removePeer(c, p) ==
    /\ candSeen' = [candSeen EXCEPT ![c][p] = <<>>]
    /\ glare' = glare \ {{c, p}}
    /\ IF p \in registered[c]
       THEN /\ registered' = [registered EXCEPT ![c] = @ \ {p}]
            /\ pcs' = [pcs EXCEPT ![c][p] = BlankPc]
            /\ livePcs' = [livePcs EXCEPT ![c][p] = @ - 1]
            /\ errors' = [errors EXCEPT ![c] = @ \cup RejectedByClose(c, p, pcs[c][p])]
       ELSE UNCHANGED <<registered, pcs, livePcs, errors>>

\* audioSocket.on("user-left")
OnUserLeft(c) ==
    /\ Incoming(c, "user-left")
    /\ removePeer(c, Head1(c).from)
    /\ audioInbox' = Popped(c)
    /\ UNCHANGED <<present, phase, exitSteps, mediaVars, subscribed, emitted, voiceRoom,
                   nOffers, budget,
                   recorder, chatVars>>

\* an event that finds no handler registered (before the effect ran, after off())
DropEvent(c) ==
    /\ c \in present
    /\ audioInbox[c] # <<>>
    /\ ~subscribed[c]
    /\ audioInbox' = Popped(c)
    /\ UNCHANGED <<present, phase, exitSteps, mediaVars, linkVars, subscribed, emitted,
                   voiceRoom, errors, nOffers, budget,
                   recorder, chatVars>>

\* ------------------------------------------------ continuations (awaits)
Err(p, o) == [f |-> FnOf(o.op), peer |-> p, op |-> o.op]

\* The operation at the head of the chain of c's connection for p settles and
\* the async function that awaits it runs to its next await (or to its end).
Settle(c, p) ==
    /\ c \in present
    /\ p \in registered[c]
    /\ pcs[c][p].ops # <<>>
    /\ LET o == Head(pcs[c][p].ops)
           rest == [pcs[c][p] EXCEPT !.ops = Tail(@)]
       IN \E out \in Outcomes(rest, o) :
            IF ~out.ok
            THEN /\ errors' = [errors EXCEPT ![c] = @ \cup {Err(p, o)}]
                 /\ pcs' = [pcs EXCEPT ![c][p] = out.link]
                 /\ UNCHANGED <<audioInbox, emitted, nOffers>>
            ELSE
              /\ UNCHANGED errors
              /\ CASE o.op = "createOffer" ->
                        \* const offer = await pc.createOffer(); setLocalDescription(offer)
                        /\ nOffers' = [nOffers EXCEPT ![c] = @ + 1]
                        /\ pcs' = [pcs EXCEPT ![c][p] =
                              Chain(out.link, "setLocalOffer", <<"offer", c, nOffers[c] + 1>>)]
                        /\ UNCHANGED <<audioInbox, emitted>>
                   [] o.op = "setLocalOffer" ->
                        /\ pcs' = [pcs EXCEPT ![c][p] = out.link]
                        /\ audioInbox' = Forward(audioInbox, p, Msg("voice-offer", c, o.d))
                        /\ emitted' = Count(c, "voice-offer")
                        /\ UNCHANGED nOffers
                   [] o.op = "rollback" ->
                        /\ pcs' = [pcs EXCEPT ![c][p] = Chain(out.link, "setRemoteOffer", o.d)]
                        /\ UNCHANGED <<audioInbox, emitted, nOffers>>
                   [] o.op = "setRemoteOffer" ->
                        /\ pcs' = [pcs EXCEPT ![c][p] = Chain(out.link, "createAnswer", o.d)]
                        /\ UNCHANGED <<audioInbox, emitted, nOffers>>
                   [] o.op = "createAnswer" ->
                        /\ pcs' = [pcs EXCEPT ![c][p] =
                              Chain(out.link, "setLocalAnswer", <<"answer", c, out.link.pendR>>)]
                        /\ UNCHANGED <<audioInbox, emitted, nOffers>>
                   [] o.op = "setLocalAnswer" ->
                        /\ pcs' = [pcs EXCEPT ![c][p] = out.link]
                        /\ audioInbox' = Forward(audioInbox, p, Msg("voice-answer", c, o.d))
                        /\ emitted' = Count(c, "voice-answer")
                        /\ UNCHANGED nOffers
                   [] OTHER ->  \* setRemoteAnswer, addIceCandidate: nothing follows
                        /\ pcs' = [pcs EXCEPT ![c][p] = out.link]
                        /\ UNCHANGED <<audioInbox, emitted, nOffers>>
    /\ glare' = IF /\ pcs'[c][p].sig = "have-local-offer"
                    /\ pcs'[c][p].curR = None
                    /\ c \in registered[p]
                    /\ pcs[p][c].sig = "have-local-offer"
                    /\ pcs[p][c].curR = None
                 THEN glare \cup {{c, p}}
                 ELSE glare
    /\ UNCHANGED <<present, phase, exitSteps, mediaVars, registered, livePcs, candSeen, subscribed,
                   voiceRoom, budget,
                   recorder, chatVars>>

\* pc.onicecandidate: a local candidate is found and sent to the peer
OnLocalCandidate(c, p) ==
    /\ c \in present
    /\ p \in registered[c]
    /\ LocalDescriptionSet(pcs[c][p])
    /\ budget > 0
    /\ p \in present => Len(audioInbox[p]) < MaxInbox
    /\ budget' = budget - 1
    /\ audioInbox' = Forward(audioInbox, p, Msg("ice-candidate", c, <<"cand", c, budget>>))
    /\ emitted' = Count(c, "ice-candidate")
    /\ UNCHANGED <<present, phase, exitSteps, mediaVars, linkVars, subscribed, voiceRoom,
                   errors, nOffers,
                   recorder, chatVars>>

\* ------------------------------------------------------------- toggles
\* tracks carried by senders of kind k over all registered connections of c
SenderTracks(c, k, reg, links) ==
    {t \in TrackIds : KindOf(t) = k /\
        \E p \in reg : \E i \in 1..Len(links[p].senders) : links[p].senders[i] = t}

SetEnabled(trk, c, ts, v) ==
    [trk EXCEPT ![c] = [t \in TrackIds |->
        IF t \in ts THEN [@[t] EXCEPT !.enabled = v] ELSE @[t]]]

\* a toggleMic that mutes by taking the audio sender off every connection
\* (pc.removeTrack) instead of flipping the enabled flag
MutToggleMicRemoveSender(c) ==
    /\ c \in present
    /\ phase[c] = "mounted"
    /\ hasStream[c]
    /\ getAudioTracks(c) # <<>>
    /\ isMicOn' = [isMicOn EXCEPT ![c] = ~@]
    /\ pcs' = [pcs EXCEPT ![c] = [p \in Ids |->
                 [@[p] EXCEPT !.senders = SelectSeq(@, LAMBDA t : KindOf(t) # "audio")]]]
    /\ UNCHANGED <<present, phase, exitSteps, hasStream, streamTracks, tracks, isCamOn, initMedia,
                   camRequests, registered, livePcs, candSeen, glare, subscribed, netVars,
                   errors, nOffers, budget, recorder, chatVars>>

\* a toggleMic that flips the indicator and leaves the track alone
MutToggleMicStateOnly(c) ==
    /\ c \in present
    /\ phase[c] = "mounted"
    /\ hasStream[c]
    /\ getAudioTracks(c) # <<>>
    /\ isMicOn' = [isMicOn EXCEPT ![c] = ~@]
    /\ UNCHANGED <<present, phase, exitSteps, hasStream, streamTracks, tracks, isCamOn,
                   initMedia, camRequests, linkVars, subscribed, netVars, errors, nOffers,
                   budget, recorder, chatVars>>

\* toggleMic: flip the audio track, then every audio sender of every connection
toggleMic(c) ==
    /\ c \in present
    /\ phase[c] = "mounted"
    /\ hasStream[c]
    /\ getAudioTracks(c) # <<>>
    /\ LET audioTrack == getAudioTracks(c)[1]
           newEnabled == ~tracks[c][audioTrack].enabled
           cleaned == RecorderCleanup(recorder[c])
       IN /\ tracks' = SetEnabled(tracks, c,
                 {audioTrack} \cup SenderTracks(c, "audio", registered[c], pcs[c]), newEnabled)
          /\ isMicOn' = [isMicOn EXCEPT ![c] = newEnabled]
          \* isMicOn is a dependency of the recorder effect: cleanup, then a new run
          /\ newEnabled # isMicOn[c] => RecorderSlot(cleaned, TRUE, newEnabled, TRUE)
          /\ recorder' = IF newEnabled = isMicOn[c] THEN recorder
                         ELSE [recorder EXCEPT ![c] =
                                 RecorderEffect(cleaned, TRUE, newEnabled, TRUE)]
    /\ UNCHANGED <<present, phase, exitSteps, hasStream, streamTracks, isCamOn, initMedia,
                   camRequests, linkVars, subscribed, netVars, errors, nOffers, budget,
                   chatVars>>

VideoIds == {"V1", "V2"}
AbsentVideo(c) == {t \in VideoIds : tracks[c][t].state = "absent"}
FreshVideo(c) == IF "V1" \in AbsentVideo(c) THEN "V1" ELSE "V2"

\* toggleCamera with a video track present: flip it and the video senders
toggleCamera(c) ==
    /\ c \in present
    /\ phase[c] = "mounted"
    /\ hasStream[c]
    /\ getVideoTracks(c) # <<>>
    /\ LET videoTrack == getVideoTracks(c)[1]
           newEnabled == ~tracks[c][videoTrack].enabled
       IN /\ tracks' = SetEnabled(tracks, c,
                 {videoTrack} \cup SenderTracks(c, "video", registered[c], pcs[c]), newEnabled)
          /\ isCamOn' = [isCamOn EXCEPT ![c] = newEnabled]
    /\ UNCHANGED <<present, phase, exitSteps, hasStream, streamTracks, isMicOn, initMedia,
                   camRequests, linkVars, subscribed, netVars, errors, nOffers, budget,
                   recorder, chatVars>>

\* toggleCamera without a video track: suspended at getUserMedia({video})
toggleCameraRequest(c) ==
    /\ c \in present
    /\ phase[c] = "mounted"
    /\ hasStream[c]
    /\ getVideoTracks(c) = <<>>
    /\ camRequests[c] < Cardinality(AbsentVideo(c))
    /\ camRequests' = [camRequests EXCEPT ![c] = @ + 1]
    /\ UNCHANGED <<present, phase, exitSteps, hasStream, streamTracks, tracks, isMicOn, isCamOn,
                   initMedia, linkVars, subscribed, netVars, errors, nOffers, budget,
                   recorder, chatVars>>

\* the camera track added to a connection without looking at its senders
MutAddVideoAlways(link, vt) == addTrack(link, vt)

\* "add to existing peer connections once"
AddVideoOnce(link, vt) == IF HasKindSender(link, "video") THEN link ELSE addTrack(link, vt)

\* toggleCamera resumes with the camera stream: the track joins localStream and
\* the connections that carry no video sender, then it is flipped like any other
toggleCameraGranted(c) ==
    /\ c \in present
    /\ camRequests[c] > 0
    /\ camRequests' = [camRequests EXCEPT ![c] = @ - 1]
    /\ LET vt == FreshVideo(c)
           links == [p \in Ids |-> IF p \in registered[c]
                                   THEN AddVideoOnce(pcs[c][p], vt) ELSE pcs[c][p]]
           acquired == [tracks EXCEPT ![c][vt] = LiveTrack]
       IN /\ streamTracks' = [streamTracks EXCEPT ![c] = Append(@, vt)]
          /\ pcs' = [pcs EXCEPT ![c] = links]
          /\ tracks' = SetEnabled(acquired, c,
                 {vt} \cup SenderTracks(c, "video", registered[c], links), FALSE)
          /\ isCamOn' = IF phase[c] = "unmounted" THEN isCamOn
                        ELSE [isCamOn EXCEPT ![c] = FALSE]
    /\ UNCHANGED <<present, phase, exitSteps, hasStream, isMicOn, initMedia, registered, livePcs,
                   candSeen, glare, subscribed, netVars, errors, nOffers, budget,
                   recorder, chatVars>>

\* toggleCamera resumes with a rejection: logged, nothing changes
toggleCameraDenied(c) ==
    /\ c \in present
    /\ camRequests[c] > 0
    /\ camRequests' = [camRequests EXCEPT ![c] = @ - 1]
    /\ UNCHANGED <<present, phase, exitSteps, hasStream, streamTracks, tracks, isMicOn, isCamOn,
                   initMedia, linkVars, subscribed, netVars, errors, nOffers, budget,
                   recorder, chatVars>>

\* ------------------------------------------------------- recorder timers
\* stop events and restart timers one MediaRecorder may have outstanding
MaxPending == 1

\* mediaRecorder.start(): throws unless inactive with a live audio track
CanStart(c, m) == m.state = "inactive" /\ tracks[c]["A"].state = "live"

RecorderStep(c, R) ==
    /\ c \in present
    /\ recorder' = [recorder EXCEPT ![c] = R]
    /\ UNCHANGED <<present, phase, exitSteps, mediaVars, linkVars, subscribed, netVars, errors,
                   nOffers, budget, chatVars>>

\* the 3000 ms timeout: start(); on success the 500 ms warm-up timeout is set
StartTimeoutFires(c) ==
    /\ recorder[c].startTimeout # <<>>
    /\ recorder[c].startTimeout[2] = 1
    /\ LET i == recorder[c].startTimeout[1]
       IN RecorderStep(c,
            IF CanStart(c, recorder[c].mr[i])
            THEN [recorder[c] EXCEPT !.mr[i].state = "recording", !.startTimeout = <<i, 2>>]
            ELSE [recorder[c] EXCEPT !.startTimeout = <<>>])

\* the 500 ms timeout: onstop is assigned and the 12 s interval begins
WarmupFires(c) ==
    /\ recorder[c].startTimeout # <<>>
    /\ recorder[c].startTimeout[2] = 2
    /\ LET i == recorder[c].startTimeout[1]
       IN RecorderStep(c, [recorder[c] EXCEPT !.mr[i].onstop = TRUE, !.interval = i,
                                              !.startTimeout = <<>>])

\* the interval callback: stop() to finalize the chunk
IntervalTick(c) ==
    /\ recorder[c].interval # 0
    /\ LET i == recorder[c].interval
       IN /\ recorder[c].mr[i].state = "recording"
          /\ recorder[c].mr[i].stopEvents + recorder[c].mr[i].restarts < MaxPending
          /\ RecorderStep(c, [recorder[c] EXCEPT !.mr[i] = StopRecorder(@)])

\* the stop event is dispatched: onstop sets the 400 ms restart timer when
\* recorderShouldRestartRef allows (its isMicOn is the one of the effect run
\* that created the recorder, which is true)
StopEvent(c, i) ==
    /\ recorder[c].mr[i].stopEvents > 0
    /\ RecorderStep(c, [recorder[c] EXCEPT
            !.mr[i].stopEvents = @ - 1,
            !.mr[i].restarts = IF recorder[c].mr[i].onstop /\ recorder[c].shouldRestart
                               THEN @ + 1 ELSE @])

\* the 400 ms timer set by onstop: start() if the recorder is inactive
RestartFires(c, i) ==
    /\ recorder[c].mr[i].restarts > 0
    /\ RecorderStep(c, [recorder[c] EXCEPT
            !.mr[i].restarts = @ - 1,
            !.mr[i].state = IF CanStart(c, recorder[c].mr[i]) THEN "recording" ELSE @])

\* ----------------------------------------------------------- environment
EnvPeers == Ids \ present

Inject(c, m) ==
    /\ c \in present
    /\ subscribed[c]
    /\ budget > 0
    /\ Len(audioInbox[c]) < MaxInbox
    /\ budget' = budget - 1
    /\ audioInbox' = [audioInbox EXCEPT ![c] = Append(@, m)]
    /\ UNCHANGED <<present, phase, exitSteps, mediaVars, linkVars, subscribed, emitted,
                   voiceRoom, errors, nOffers,
                   recorder, chatVars>>

\* the relay announces p to c
RelayUserJoined(c, p) ==
    /\ p # c
    /\ p \in EnvPeers \/ p \in voiceRoom
    /\ Inject(c, Msg("user-joined", p, None))

\* a remote participant goes away
RemoteLeft(c, p) ==
    /\ p \in EnvPeers
    /\ c \in present
    /\ subscribed[c]
    /\ budget > 0
    /\ Len(audioInbox[c]) < MaxInbox
    /\ budget' = budget - 1
    /\ audioInbox' = [audioInbox EXCEPT ![c] = Append(@, Msg("user-left", p, None))]
    /\ chatInbox' = RosterAfterLeave(p, chatInbox)
    /\ chatRoom' = chatRoom \ {p}
    /\ UNCHANGED <<present, phase, exitSteps, mediaVars, linkVars, subscribed, emitted,
                   voiceRoom, errors, nOffers, recorder, users, message, messages>>
\* a remote participant sends an offer, an answer, a candidate
RemoteOffer(c, p) == p \in EnvPeers /\ Inject(c, Msg("voice-offer", p, <<"offer", p, 1>>))
RemoteAnswer(c, p) == p \in EnvPeers /\ Inject(c, Msg("voice-answer", p, <<"answer", p, None>>))
RemoteCandidate(c, p) ==
    p \in EnvPeers /\ Inject(c, Msg("ice-candidate", p, <<"cand", p, budget>>))

\* ------------------------------------------------------------------ Next
\* the signaling handlers and the continuations of the async functions
SignalingStep(c) ==
    \/ OnUserJoined(c)
    \/ OnVoiceOffer(c)
    \/ OnVoiceAnswer(c)
    \/ OnIceCandidate(c)
    \/ OnUserLeft(c)
    \/ DropEvent(c)
    \/ \E p \in Ids : Settle(c, p)
    \/ \E p \in Ids : OnLocalCandidate(c, p)

\* One client among remote participants played by the environment; the devices
\* grant the combined request.
Next ==
    \/ \E c \in Ids : GumCombinedOk(c)
    \/ \E c \in Ids : toggleMic(c)
    \/ \E c \in Ids : confirmLeaveCall(c)
    \/ \E c \in Ids : Unmount(c)
    \/ \E c \in Ids : OnRoomUsers(c)
    \/ \E c \in Ids : SignalingStep(c)
    \/ \E c, p \in Ids : RelayUserJoined(c, p)
    \/ \E c, p \in Ids : RemoteLeft(c, p)
    \/ \E c, p \in Ids : RemoteOffer(c, p)
    \/ \E c, p \in Ids : RemoteAnswer(c, p)
    \/ \E c, p \in Ids : RemoteCandidate(c, p)

Spec == Init /\ [][Next]_vars

\* Two clients of the same room and the relay between them: the relay may
\* announce either one to the other, so both may start an offer.
InitPair ==
    /\ present = {"a", "b"}
    /\ budget = MaxEvents + 1
    /\ ChatJoined(Ids)
    /\ InitCommon

NextPair ==
    \/ \E c \in Ids : GumCombinedOk(c)
    \/ \E c \in Ids : Unmount(c)
    \/ \E c \in Ids : SignalingStep(c)
    \/ \E c, p \in Ids : RelayUserJoined(c, p)

SpecPair == InitPair /\ [][NextPair]_vars

\* One client and its devices: every way initMedia and the camera request can
\* go, the toggles, both ways out, and remote peers that make links come and go.
NextMedia ==
    \/ \E c \in Ids : GumCombinedOk(c)
    \/ \E c \in Ids : GumCombinedFail(c)
    \/ \E c \in Ids : \E ok \in BOOLEAN : GumVideo(c, ok)
    \/ \E c \in Ids : \E ok \in BOOLEAN : GumAudio(c, ok)
    \/ \E c \in Ids : toggleCamera(c)
    \/ \E c \in Ids : toggleCameraRequest(c)
    \/ \E c \in Ids : toggleCameraGranted(c)
    \/ \E c \in Ids : toggleCameraDenied(c)
    \/ \E c \in Ids : confirmLeaveCall(c)
    \/ \E c \in Ids : Unmount(c)
    \/ \E c \in Ids : OnUserJoined(c)
    \/ \E c \in Ids : OnVoiceOffer(c)
    \/ \E c \in Ids : OnUserLeft(c)
    \/ \E c \in Ids : DropEvent(c)
    \/ \E c, p \in Ids : Settle(c, p)
    \/ \E c, p \in Ids : RelayUserJoined(c, p)
    \/ \E c, p \in Ids : RemoteOffer(c, p)
    \/ \E c, p \in Ids : RemoteLeft(c, p)

SpecMedia == Init /\ [][NextMedia]_vars

\* One client, its microphone and the timers of the recorder effect.
NextRec ==
    \/ \E c \in Ids : GumCombinedOk(c)
    \/ \E c \in Ids : toggleMic(c)
    \/ \E c \in Ids : confirmLeaveCall(c)
    \/ \E c \in Ids : Unmount(c)
    \/ \E c \in Ids : StartTimeoutFires(c)
    \/ \E c \in Ids : WarmupFires(c)
    \/ \E c \in Ids : IntervalTick(c)
    \/ \E c \in Ids : \E i \in RecIds : StopEvent(c, i)
    \/ \E c \in Ids : \E i \in RecIds : RestartFires(c, i)

SpecRec == Init /\ [][NextRec]_vars

\* Two clients that join the room one after the other and stay: the relay
\* announces the one who joins to the one already there. Events are delivered,
\* promises settle and the devices answer.
InitRoom ==
    /\ present = {"a", "b"}
    /\ budget = MaxEvents
    /\ ChatJoined({"a", "b"})
    /\ InitCommon

NextRoom ==
    \/ \E c \in Ids : GumCombinedJoin(c)
    \/ \E c \in Ids : OnRoomUsers(c)
    \/ \E c \in Ids : OnUserJoined(c)
    \/ \E c \in Ids : OnVoiceOffer(c)
    \/ \E c \in Ids : OnVoiceAnswer(c)
    \/ \E c \in Ids : OnIceCandidate(c)
    \/ \E c, p \in Ids : Settle(c, p)
    \/ \E c, p \in Ids : OnLocalCandidate(c, p)

RoomFairness ==
    /\ \A c \in Ids : WF_vars(GumCombinedJoin(c))
    /\ \A c \in Ids : WF_vars(OnRoomUsers(c))
    /\ \A c \in Ids : WF_vars(OnUserJoined(c))
    /\ \A c \in Ids : WF_vars(OnVoiceOffer(c))
    /\ \A c \in Ids : WF_vars(OnVoiceAnswer(c))
    /\ \A c \in Ids : WF_vars(OnIceCandidate(c))
    /\ \A c, p \in Ids : WF_vars(Settle(c, p))

SpecRoom == InitRoom /\ [][NextRoom]_vars /\ RoomFairness

\* the others of the room in the order of their identifiers
Others(c) == SelectSeq(<<"a", "b", "c">>, LAMBDA p : p # c /\ p \in voiceRoom)

\* the relay announces everyone in the voice room to everyone else at once
RelayRoster ==
    /\ voiceRoom = present
    /\ \A c \in present : subscribed[c]
    /\ budget > 0
    /\ budget' = 0
    /\ audioInbox' = [q \in Ids |-> audioInbox[q] \o
            [i \in 1..Len(Others(q)) |-> Msg("user-joined", Others(q)[i], None)]]
    /\ UNCHANGED <<present, phase, exitSteps, mediaVars, linkVars, subscribed, emitted,
                   voiceRoom, errors, nOffers, recorder, chatVars>>

\* One client whose peers come and go: links are made by user-joined and by
\* incoming offers and removed by user-left, with and without a link.
InitLeave ==
    /\ present = {"a"}
    /\ budget = MaxEvents + 1
    /\ ChatJoined(Ids)
    /\ InitCommon

NextLeave ==
    \/ \E c \in Ids : GumCombinedOk(c)
    \/ \E c \in Ids : OnRoomUsers(c)
    \/ \E c \in Ids : OnUserJoined(c)
    \/ \E c \in Ids : OnVoiceOffer(c)
    \/ \E c \in Ids : OnUserLeft(c)
    \/ \E c, p \in Ids : Settle(c, p)
    \/ \E c, p \in Ids : RelayUserJoined(c, p)
    \/ \E c, p \in Ids : RemoteOffer(c, p)
    \/ \E c, p \in Ids : RemoteLeft(c, p)

SpecLeave == InitLeave /\ [][NextLeave]_vars

\* One client and the chat: typing, sending, the roster and the log.
NextChat ==
    \/ \E c \in Ids : \E t \in Texts : setMessage(c, t)
    \/ \E c \in Ids : handleSendMessage(c)
    \/ \E c \in Ids : OnMessage(c)
    \/ \E c \in Ids : OnRoomUsers(c)

SpecChat == Init /\ [][NextChat]_vars

\* Three clients of one room that discover one another at the same time; the
\* run is followed up to the first time the two ends of a pair hold an offer
\* for each other.
InitMesh ==
    /\ present = Ids
    /\ budget = 1
    /\ ChatJoined(Ids)
    /\ InitCommon

NextMesh ==
    \/ \E c \in Ids : GumCombinedOk(c)
    \/ \E c \in Ids : glare = {} /\ OnUserJoined(c)
    \/ \E c \in Ids : glare = {} /\ OnVoiceOffer(c)
    \/ \E c \in Ids : glare = {} /\ OnVoiceAnswer(c)
    \/ \E c, p \in Ids : glare = {} /\ Settle(c, p)
    \/ RelayRoster

SpecMesh == InitMesh /\ [][NextMesh]_vars

\* ================================================================ claims
\* C1: a client's registry holds at most one PeerLink per peerId: for every
\* peer exactly one connection is open when the peer is registered and none
\* otherwise, so getOrCreatePeerConnection constructs only when none is registered.
C1_OneLinkPerPeer ==
    \A c \in present : \A p \in Ids :
        livePcs[c][p] = IF p \in registered[c] THEN 1 ELSE 0

\* Two handlers (user-joined, then voice-offer) asked for the link of the same
\* peer, the second one while the first was suspended.
C1_Witness ==
    \E p \in Ids :
        /\ p \in registered["a"]
        /\ livePcs["a"][p] = 1
        /\ Len(pcs["a"][p].ops) = 2
        /\ pcs["a"][p].ops[1].op \in {"createOffer", "setLocalOffer"}
        /\ pcs["a"][p].ops[2].op \in {"rollback", "setRemoteOffer"}

\* C3: leaving twice (confirmLeaveCall, then the unmount cleanup) produces
\* exactly one departure event per transport.
C3_OneDeparturePerTransport ==
    \A c \in present :
        /\ emitted[c]["leave-voice-room"] <= 1
        /\ emitted[c]["leaveRoom"] <= 1

\* C4: a candidate received before the remote description of the peer is set
\* (or before a link exists) is not discarded: once the description is set and
\* nothing is pending on the link, the candidates applied are the candidates
\* received, in arrival order.
C4_CandidatesBuffered ==
    \A c \in present : \A p \in registered[c] :
        (RemoteDescriptionSet(pcs[c][p]) /\ pcs[c][p].ops = <<>>)
            => pcs[c][p].ice = candSeen[c][p]

\* C5: only the peer with the greater connection identifier calls createOffer
\* toward the other one.
C5_GreaterIdOffers ==
    \A c \in present : \A p \in registered[c] :
        (\E i \in 1..Len(pcs[c][p].ops) : FnOf(pcs[c][p].ops[i].op) = "createOffer")
            => IdLess(p, c)

\* C6: a mic toggle sets the enabled flag of the audio sender of every
\* registered link to the new mic state, and creates no link, removes none,
\* emits nothing and leaves every connection (negotiation state, pending
\* operations, senders) as it was.
C6_MuteWithoutRenegotiation ==
    [][\A c \in Ids :
        isMicOn'[c] # isMicOn[c] =>
            /\ registered' = registered
            /\ livePcs' = livePcs
            /\ pcs' = pcs
            /\ audioInbox' = audioInbox
            /\ emitted' = emitted
            /\ \A p \in registered[c] : \A i \in 1..Len(pcs[c][p].senders) :
                  KindOf(pcs[c][p].senders[i]) = "audio" =>
                      /\ tracks[c][pcs[c][p].senders[i]].enabled = isMicOn[c]
                      /\ tracks'[c][pcs[c][p].senders[i]].enabled = isMicOn'[c]]_vars

\* The mic is off while a link that carries an audio sender is mid-negotiation.
C6_Witness ==
    /\ ~isMicOn["a"]
    /\ \E p \in registered["a"] :
          /\ pcs["a"][p].sig = "have-local-offer"
          /\ HasKindSender(pcs["a"][p], "audio")
          /\ ~tracks["a"]["A"].enabled

\* the step of the user-left handler of c
C7_UserLeftStep(c) ==
    (Incoming(c, "user-left") /\ audioInbox'[c] = Tail(audioInbox[c]))
        => LET p == Head1(c).from
           IN /\ p \notin registered'[c]
              /\ livePcs'[c][p] = 0
              /\ pcs'[c][p] = BlankPc
              /\ errors' = errors

\* a mounted client that has received every roster lists nobody who left
C7_RosterDropsLeaver ==
    \A c \in present : \A p \in Ids :
        (p \notin chatRoom /\ chatInbox[c] = <<>> /\ phase[c] = "mounted")
            => p \notin users[c]

\* C7: when user-left arrives for a peer, also while createOffer or
\* handleReceiveOffer for it is suspended, the link is closed and removed in
\* that step, nothing of it stays pending, no error is raised, and once the
\* roster the chat relay sent after the departure is delivered it does not
\* list the peer.
C7_LeaveMidNegotiation ==
    /\ [][\A c \in Ids : C7_UserLeftStep(c)]_vars
    /\ []C7_RosterDropsLeaver

\* b left while a's createOffer for it was suspended at setLocalDescription:
\* the offer was created and never sent, the link is gone, nothing was
\* raised and the roster lists a and c only.
C7_Witness ==
    /\ phase["a"] = "mounted"
    /\ nOffers["a"] = 1
    /\ emitted["a"]["voice-offer"] = 0
    /\ registered["a"] = {}
    /\ errors["a"] = {}
    /\ chatRoom = {"a", "c"}
    /\ users["a"] = {"a", "c"}

\* both ends hold a link for the other and have nothing left to process
C2_Settled(c, p) ==
    /\ p \in registered[c]
    /\ c \in registered[p]
    /\ pcs[c][p].ops = <<>>
    /\ pcs[p][c].ops = <<>>
    /\ audioInbox[c] = <<>>
    /\ audioInbox[p] = <<>>

\* C2: when two clients have offered to each other at once (both ends held a
\* local offer for the other), then once both have processed the exchange both
\* links are stable, exactly one got there through its own offer and the other
\* through the offer of its peer.
C2_GlareResolved ==
    \A c, p \in present :
        (c # p /\ {c, p} \in glare /\ C2_Settled(c, p))
            => /\ pcs[c][p].sig = "stable"
               /\ pcs[p][c].sig = "stable"
               /\ {pcs[c][p].via, pcs[p][c].via} = {"own", "peer"}

\* C8: on every exit path every local media track that was ever acquired ends
\* up stopped: once the component is unmounted and no media request is pending
\* any more, no camera or microphone track is live.
C8_NoLiveTrackAfterExit ==
    \A c \in present :
        (phase[c] = "unmounted" /\ initMedia[c] = "done" /\ camRequests[c] = 0)
            => \A t \in TrackIds : tracks[c][t].state # "live"

\* pc.getSenders() filtered by track kind
SendersOfKind(link, k) == Len(SelectSeq(link.senders, LAMBDA t : KindOf(t) = k))

\* C10: every registered link carries at most one sender per track kind, and
\* exactly one for each kind of which localStream has a track, however often
\* getOrCreatePeerConnection ran for the peer and whatever toggleCamera acquired.
C10_OneSenderPerKind ==
    \A c \in present : \A p \in registered[c] : \A k \in {"audio", "video"} :
        /\ SendersOfKind(pcs[c][p], k) <= 1
        /\ (hasStream[c] /\ SelectKind(streamTracks[c], k) # <<>>)
              => SendersOfKind(pcs[c][p], k) = 1

\* An audio-only stream got two camera tracks from two overlapping toggleCamera
\* calls while a link existed; getOrCreatePeerConnection ran twice for the peer.
C10_Witness ==
    /\ streamTracks["a"] = <<"A", "V1", "V2">>
    /\ \E p \in registered["a"] :
          /\ pcs["a"][p].senders = <<"A", "V1">>
          /\ Len(pcs["a"][p].ops) = 2

\* C9: no audio segment is captured while the microphone is off: whenever the
\* mic is off no MediaRecorder is recording, a restart scheduled by an earlier
\* periodic stop included.
C9_NoCaptureWhileMuted ==
    \A c \in present :
        ~isMicOn[c] => \A i \in RecIds : recorder[c].mr[i].state # "recording"


\* the two links exist, both are stable, one through its own offer and one
\* through the offer of the peer, one offer and one answer were transmitted,
\* and both rosters list the two clients
C11_Paired ==
    /\ registered["a"] = {"b"} /\ registered["b"] = {"a"}
    /\ pcs["a"]["b"].sig = "stable" /\ pcs["b"]["a"].sig = "stable"
    /\ {pcs["a"]["b"].via, pcs["b"]["a"].via} = {"own", "peer"}
    /\ emitted["a"]["voice-offer"] + emitted["b"]["voice-offer"] = 1
    /\ emitted["a"]["voice-answer"] + emitted["b"]["voice-answer"] = 1
    /\ users["a"] = {"a", "b"} /\ users["b"] = {"a", "b"}

\* at no time a second link, a second offer or a second answer, or an error
C11_NoDuplicate ==
    /\ \A c \in present : \A p \in Ids : livePcs[c][p] <= 1
    /\ \A c \in present : registered[c] \subseteq present \ {c}
    /\ emitted["a"]["voice-offer"] + emitted["b"]["voice-offer"] <= 1
    /\ emitted["a"]["voice-answer"] + emitted["b"]["voice-answer"] <= 1
    /\ \A c \in present : errors[c] = {}

\* C11: when one client is in the room and the other then joins, each creates
\* exactly one link to the other, exactly one offer/answer pair is exchanged,
\* and eventually, for good, both links are stable and both rosters list the
\* two clients.
C11_TwoPartyJoin ==
    /\ []C11_NoDuplicate
    /\ <>[]C11_Paired

\* both ends are paired and have applied a candidate of the other
C11_Witness ==
    /\ C11_Paired
    /\ pcs["a"]["b"].ops = <<>> /\ pcs["b"]["a"].ops = <<>>
    /\ audioInbox["a"] = <<>> /\ audioInbox["b"] = <<>>
    /\ pcs["a"]["b"].ice # <<>>
    /\ pcs["b"]["a"].ice # <<>>

\* C12: when three participants discover each other at the same time, every
\* client holds at most one link per other participant and no pair negotiates
\* two sessions: the two ends of a pair never both hold their own offer for
\* the other.
C12_OneSessionPerPair ==
    /\ \A c \in present : \A p \in Ids : livePcs[c][p] <= 1
    /\ \A c \in present : \A p \in registered[c] :
          ~(/\ c \in registered[p]
            /\ pcs[c][p].sig = "have-local-offer" /\ pcs[c][p].curR = None
            /\ pcs[p][c].sig = "have-local-offer" /\ pcs[p][c].curR = None)

\* C13: when the devices are denied for both audio and video, the client is
\* still announced on both transports (joinRoom on the chat socket,
\* join-voice-room on the signaling socket) and no link carries a sender.
C13_ActiveWithoutMedia ==
    \A c \in present :
        (phase[c] = "mounted" /\ initMedia[c] = "done" /\ ~hasStream[c])
            => /\ emitted[c]["joinRoom"] >= 1
               /\ emitted[c]["join-voice-room"] >= 1
               /\ \A p \in Ids : pcs[c][p].senders = <<>>

\* a track of the kind was acquired by some getUserMedia request
Acquired(c, k) == \E t \in TrackIds : KindOf(t) = k /\ tracks[c][t].state # "absent"

\* C19: once initMedia is over in a mounted component, localStream holds
\* exactly the kinds that were acquired (after a failed combined request: the
\* kinds whose own request succeeded), and there is no localStream exactly when
\* nothing was acquired; the component stays mounted either way.
C19_PartialAcquisition ==
    \A c \in present :
        (phase[c] = "mounted" /\ initMedia[c] = "done")
            => /\ hasStream[c] <=> (Acquired(c, "audio") \/ Acquired(c, "video"))
               /\ \A k \in {"audio", "video"} :
                     (SelectKind(streamTracks[c], k) # <<>>) <=> Acquired(c, k)

\* the combined request and the video request failed, the audio request
\* succeeded: localStream holds the audio track alone
C19_Witness ==
    /\ phase["a"] = "mounted"
    /\ initMedia["a"] = "done"
    /\ hasStream["a"]
    /\ streamTracks["a"] = <<"A">>
    /\ tracks["a"]["V1"].state = "absent"
    /\ subscribed["a"]

\* number of messages of sender c waiting in an inbox
C14_From(c, q) ==
    Cardinality({i \in DOMAIN q : q[i].type = "message" /\ q[i].msg.user = c})

\* C14: while the text of the chat input is empty or only whitespace after
\* trimming, no step emits sendMessage, hands a message to the relay or
\* changes the chat log other than by delivering a message sent earlier.
C14_BlankNotSent ==
    [][\A c \in Ids :
          Len(trim(message[c])) = 0
             => /\ emitted'[c]["sendMessage"] = emitted[c]["sendMessage"]
                /\ \A q \in Ids :
                      C14_From(c, chatInbox'[q]) <= C14_From(c, chatInbox[q])
                /\ messages'[c] # messages[c] =>
                      (chatInbox[c] # <<>> /\ chatInbox'[c] = Tail(chatInbox[c]))]_vars

\* a text was sent and logged, the input now holds whitespace only
C14_Witness ==
    /\ message["a"] = <<" ", " ">>
    /\ emitted["a"]["sendMessage"] = 1
    /\ messages["a"] = <<[user |-> "a", text |-> <<"x">>]>>
    /\ chatInbox["a"] = <<>>

\* the step of the voice-answer handler of c
C15_AnswerStep(c) ==
    (Incoming(c, "voice-answer") /\ audioInbox'[c] = Tail(audioInbox[c]))
        => LET p == Head1(c).from
           IN /\ registered' = registered
              /\ livePcs' = livePcs
              /\ pcs'[c][p].sig = pcs[c][p].sig
              /\ \A q \in Ids \ {p} : pcs'[c][q] = pcs[c][q]
              /\ (p \notin registered[c] \/ pcs[c][p].sig # "have-local-offer")
                    => pcs' = pcs

\* a step in which the link of c for p takes a remote answer
C15_Applied(c, p) ==
    (p \in registered'[c] /\ pcs'[c][p].via = "own"
        /\ pcs'[c][p].curR # pcs[c][p].curR)
        => /\ pcs[c][p].sig = "have-local-offer"
           /\ pcs'[c][p].sig = "stable"

\* C15: an answer is applied only to a link in have-local-offer and leaves it
\* stable; the handler of an answer that finds no link for the sender, or a
\* link in another state, changes neither a link nor the registry.
C15_AnswerOnlyOnLocalOffer ==
    [][\A c \in Ids : C15_AnswerStep(c) /\ \A p \in Ids : C15_Applied(c, p)]_vars

\* the answer to a's offer was applied: the link for b is stable by its own offer
C15_Witness ==
    /\ "b" \in registered["a"]
    /\ pcs["a"]["b"].via = "own"
    /\ pcs["a"]["b"].sig = "stable"
    /\ pcs["a"]["b"].curL = <<"offer", "a", 1>>
    /\ errors["a"] = {}

\* C16: no step of handleReceiveOffer is ever rejected (neither the rollback
\* nor the acceptance of the offer nor the creation and application of the
\* answer), whatever it interleaves with.
C16_OfferNeverRejected ==
    \A c \in Ids : \A e \in errors[c] : e.f # "handleReceiveOffer"

\* the user-joined handler of c calls createOffer on a new or a stable link
C17_Called(c) ==
    (Incoming(c, "user-joined") /\ audioInbox'[c] = Tail(audioInbox[c]))
        => LET p == Head1(c).from
           IN p \in registered[c] => pcs[c][p].sig = "stable"

\* the operation at the head of the chain of c's link for p runs in this step
C17_HeadRuns(c, p) ==
    /\ p \in registered[c]
    /\ p \in registered'[c]
    /\ pcs[c][p].ops # <<>>
    /\ \/ Len(pcs'[c][p].ops) < Len(pcs[c][p].ops)
       \/ SubSeq(pcs'[c][p].ops, 1, Len(pcs[c][p].ops)) # pcs[c][p].ops

\* C17: createOffer is called only for a link that is new or stable, and the
\* creation of the offer and its application as local description run only
\* while the link is stable.
C17_OfferOnlyFromStable ==
    [][\A c \in Ids :
          /\ C17_Called(c)
          /\ \A p \in Ids :
                (C17_HeadRuns(c, p)
                   /\ Head(pcs[c][p].ops).op \in {"createOffer", "setLocalOffer"})
                    => pcs[c][p].sig = "stable"]_vars

\* the links of c for everyone but p are the same before and after the step
C20_OthersUntouched(c, p) ==
    \A q \in Ids \ {p} :
        /\ (q \in registered'[c]) = (q \in registered[c])
        /\ pcs'[c][q] = pcs[c][q]
        /\ livePcs'[c][q] = livePcs[c][q]

\* the step of the user-left handler of c
C20_RemoveStep(c) ==
    (Incoming(c, "user-left") /\ audioInbox'[c] = Tail(audioInbox[c]))
        => LET p == Head1(c).from
           IN /\ C20_OthersUntouched(c, p)
              /\ p \in registered[c] =>
                    /\ registered'[c] = registered[c] \ {p}
                    /\ livePcs'[c][p] = livePcs[c][p] - 1
                    /\ pcs'[c][p].ops = <<>>
                    /\ pcs'[c][p].ice = <<>>
              /\ p \notin registered[c] =>
                    /\ registered' = registered
                    /\ pcs' = pcs
                    /\ livePcs' = livePcs
                    /\ errors' = errors

\* C20: the user-left handler closes the connection of the peer and removes
\* it from the registry; when no link exists for the peer it changes nothing
\* and raises nothing; the links of the other peers are the same after it.
C20_RemoveIsLocal ==
    [][\A c \in Ids : C20_RemoveStep(c)]_vars

\* a sent one offer to b and one to c, b left: the link for b is gone and the
\* link for c still holds the first offer
C20_Witness ==
    /\ registered["a"] = {"c"}
    /\ livePcs["a"]["b"] = 0
    /\ livePcs["a"]["c"] = 1
    /\ emitted["a"]["voice-offer"] = 2
    /\ pcs["a"]["c"].sig = "have-local-offer"
    /\ pcs["a"]["c"].pendL = <<"offer", "a", 1>>
    /\ audioInbox["a"] = <<>>
    /\ errors["a"] = {}

\* in the steps s, every step named x comes before every step named y
C18_Before(s, x, y) ==
    \A i, j \in DOMAIN s : (s[i] = x /\ s[j] = y) => i < j

\* in the steps s, a step named x comes before the first step named y
C18_Announced(s, x, y) ==
    \A j \in DOMAIN s : s[j] = y => \E i \in 1..(j - 1) : s[i] = x

\* C18: on every exit path the departure is announced on the chat and on the
\* voice transport before a connection is closed, every connection is closed
\* before a local track is stopped, and the tracks are stopped before the
\* recorder and its timers are cancelled.
C18_LeaveOrder ==
    \A c \in Ids :
        /\ C18_Announced(exitSteps[c], "leaveRoom", "close")
        /\ C18_Announced(exitSteps[c], "leave-voice-room", "close")
        /\ C18_Before(exitSteps[c], "close", "stop")
        /\ C18_Before(exitSteps[c], "stop", "cancel")

\* C21: the user-joined handler of a client that already holds a link for
\* the announced peer ignores the event: no connection is constructed and the
\* link, its negotiation state and its pending operations stay as they were,
\* so no further offer is created or sent.
C21_DuplicateJoinIgnored ==
    [][\A c \in Ids :
          (Incoming(c, "user-joined") /\ audioInbox'[c] = Tail(audioInbox[c])
              /\ Head1(c).from \in registered[c])
             => /\ livePcs' = livePcs
                /\ registered' = registered
                /\ pcs' = pcs]_vars

\* C22: the step of the message handler appends the message it received at
\* the end of the log, whether or not the log already holds an equal one, and
\* no other step changes the log.
C22_LogIsArrivalOrder ==
    [][\A c \in Ids :
          IF /\ chatInbox[c] # <<>>
             /\ Head(chatInbox[c]).type = "message"
             /\ chatInbox'[c] = Tail(chatInbox[c])
             /\ phase[c] = "mounted"
          THEN messages'[c] = Append(messages[c], Head(chatInbox[c]).msg)
          ELSE messages'[c] = messages[c]]_vars

\* the same text was sent and delivered twice: the log holds it twice
C22_Witness ==
    /\ messages["a"] = <<[user |-> "a", text |-> <<"x">>], [user |-> "a", text |-> <<"x">>]>>
    /\ chatInbox["a"] = <<>>

\* C23: no failure of a negotiation step of a link (creating or applying an
\* offer, an answer or a candidate) leaves the function it happened in: none
\* is ever an uncaught rejection.
C23_FailuresCaught ==
    \A c \in Ids : errors[c] = {}

\* C24: once initMedia has finished, a mounted client whose mic indicator is
\* on has a local audio track, and one whose camera indicator is on has a
\* local video track.
C24_IndicatorOffWithoutTrack ==
    \A c \in present :
        (phase[c] = "mounted" /\ initMedia[c] = "done")
            => /\ isMicOn[c] => (hasStream[c] /\ getAudioTracks(c) # <<>>)
               /\ isCamOn[c] => (hasStream[c] /\ getVideoTracks(c) # <<>>)

\* C25: localStream holds at most one audio track and at most one video
\* track in every reachable state.
C25_OneTrackPerKind ==
    \A c \in Ids :
        /\ Len(getAudioTracks(c)) <= 1
        /\ Len(getVideoTracks(c)) <= 1

\* C26: a MediaRecorder that is not the one of the current run of the
\* recorder effect (it was cancelled by a cleanup, or never created) has no
\* start timeout, no interval and no restart timer pending and is not
\* recording.
C26_CancelledStaysCancelled ==
    \A c \in Ids : \A i \in RecIds :
        recorder[c].cleanup # i
            => /\ recorder[c].mr[i].restarts = 0
               /\ recorder[c].mr[i].state # "recording"
               /\ recorder[c].interval # i
               /\ recorder[c].startTimeout = <<>> \/ recorder[c].startTimeout[1] # i

\* C27: at most one MediaRecorder of a client is in the recording state at
\* any time.
C27_OneRecorderRecording ==
    \A c \in Ids :
        Cardinality({i \in RecIds : recorder[c].mr[i].state = "recording"}) <= 1

\* C28: whenever two clients hold their links to each other stable with a
\* remote description applied, the description each applied as remote is the
\* one the other holds as local.
C28_SessionAgreement ==
    \A c, p \in present :
        (/\ c # p
         /\ p \in registered[c] /\ c \in registered[p]
         /\ pcs[c][p].sig = "stable" /\ pcs[p][c].sig = "stable"
         /\ pcs[c][p].curR # None /\ pcs[p][c].curR # None)
            => /\ pcs[c][p].curR = pcs[p][c].curL
               /\ pcs[c][p].curL = pcs[p][c].curR

\* C29: once confirmLeaveCall has run, and after the unmount cleanup, the
\* registry of the client holds no link.
C29_NoLinkAfterLeave ==
    \A c \in Ids : phase[c] \in {"left", "unmounted"} => registered[c] = {}

\* C30: while a client has a local audio track, isMicOn is the enabled flag
\* of that track and of the track of every audio sender of every registered
\* link.
C30_MicStateIsTrackState ==
    \A c \in present :
        (hasStream[c] /\ getAudioTracks(c) # <<>>)
            => /\ isMicOn[c] = tracks[c][getAudioTracks(c)[1]].enabled
               /\ \A p \in registered[c] : \A i \in 1..Len(pcs[c][p].senders) :
                     KindOf(pcs[c][p].senders[i]) = "audio"
                        => tracks[c][pcs[c][p].senders[i]].enabled = isMicOn[c]

\* the mic is off and two links exist, each with a disabled audio sender
C30_Witness ==
    /\ phase["a"] = "mounted"
    /\ ~isMicOn["a"]
    /\ registered["a"] = {"b", "c"}
    /\ \A p \in {"b", "c"} :
          \E i \in 1..Len(pcs["a"][p].senders) :
              /\ KindOf(pcs["a"][p].senders[i]) = "audio"
              /\ ~tracks["a"][pcs["a"][p].senders[i]].enabled
====
